---------------------------- MODULE Spec2Model ----------------------------
(***************************************************************************)
(* Model of the multispeckle pipeline of msprocessing.py: xcorr, Speckle,  *)
(* Ensemble and readFramesSquare.                                          *)
(*                                                                         *)
(* Numbers.  numpy's float64 values are modelled as exact rationals        *)
(* [k |-> "num", n, d] in lowest terms (d > 0), plus the two IEEE values    *)
(* the code can produce by dividing by zero: [k |-> "nan"] and             *)
(* [k |-> "inf"].  A square root is kept as its radicand: the entries of   *)
(* timeFAKF / ensembleFAKF hold q where the program holds sqrt(q).         *)
(* Python's int 0, with which Ensemble.__init__ fills the derived fields,  *)
(* is the value Int0; it is distinct from every array.                     *)
(***************************************************************************)
EXTENDS Integers, Sequences, FiniteSets, TLC

VARIABLES speckles, ensembles, last, rf, lists

vars == <<speckles, ensembles, last, rf, lists>>

(***************************************************************************)
(* Bounds of the model.                                                    *)
(***************************************************************************)
MaxMembers == 3
MaxLag == 2
FracBits == 1
MaxVal == 2
MaxLen == 3
MaxMore == 1
MaxFrames == 2
MaxSkip == 1
MaxEnsembles == 2

(***************************************************************************)
(* Rational arithmetic with numpy's division-by-zero results.              *)
(***************************************************************************)
AbsInt(i) == IF i < 0 THEN -i ELSE i

RECURSIVE Gcd(_, _)
Gcd(a, b) == IF b = 0 THEN a ELSE Gcd(b, a % b)

NaN == [k |-> "nan", n |-> 0, d |-> 1]

Inf == [k |-> "inf", n |-> 1, d |-> 1]

Rat(n, d) ==
    LET s == IF d < 0 THEN -1 ELSE 1
        g == Gcd(AbsInt(n), AbsInt(d))
    IN  [k |-> "num", n |-> (s * n) \div g, d |-> (s * d) \div g]

FromInt(i) == [k |-> "num", n |-> i, d |-> 1]

Add(a, b) ==
    IF a.k = "nan" \/ b.k = "nan" THEN NaN
    ELSE IF a.k = "inf" \/ b.k = "inf" THEN Inf
    ELSE Rat(a.n * b.d + b.n * a.d, a.d * b.d)

Sub(a, b) ==
    IF a.k = "nan" \/ b.k = "nan" THEN NaN
    ELSE IF a.k = "inf" \/ b.k = "inf" THEN Inf
    ELSE Rat(a.n * b.d - b.n * a.d, a.d * b.d)

Mul(a, b) ==
    IF a.k = "nan" \/ b.k = "nan" THEN NaN
    ELSE IF a.k = "inf" \/ b.k = "inf"
         THEN IF (a.k = "num" /\ a.n = 0) \/ (b.k = "num" /\ b.n = 0)
              THEN NaN ELSE Inf
    ELSE Rat(a.n * b.n, a.d * b.d)

\* numpy true division: x/0 is inf for x # 0 and nan for 0/0, no exception
Div(a, b) ==
    IF a.k = "nan" \/ b.k = "nan" THEN NaN
    ELSE IF a.k = "inf" THEN IF b.k = "inf" THEN NaN ELSE Inf
    ELSE IF b.k = "inf" THEN FromInt(0)
    ELSE IF b.n = 0 THEN IF a.n = 0 THEN NaN ELSE Inf
    ELSE Rat(a.n * b.d, a.d * b.n)

Abs(a) == IF a.k = "num" THEN [a EXCEPT !.n = AbsInt(a.n)] ELSE a

\* abs(q)**(1/2), kept as the radicand abs(q)
SqrtAbs(a) == Abs(a)

\* a < b on numbers; every comparison with nan is false
Less(a, b) == a.k = "num" /\ b.k = "num" /\ a.n * b.d < b.n * a.d

\* a / np.sqrt(r), kept as sign(a) * a^2 / r (the quotient's signed square)
DivSqrt(a, r) ==
    LET sq == Div(Mul(a, a), r)
    IN  IF a.k = "num" /\ a.n < 0 /\ sq.k = "num" THEN [sq EXCEPT !.n = -sq.n]
        ELSE sq

One == FromInt(1)

RECURSIVE SumNum(_)
SumNum(s) == IF s = <<>> THEN FromInt(0) ELSE Add(s[1], SumNum(Tail(s)))

IntSeq(s) == [i \in 1..Len(s) |-> FromInt(s[i])]

\* faulty variant of Reverse: the second array is not turned around
Reverse_None(s) == s

\* y[::-1]
Reverse(s) == [i \in 1..Len(s) |-> s[Len(s) + 1 - i]]

\* faulty variant of PadZeros: the shorter array is left as it is
PadZeros_None(v, amount) == v

\* np.append(v, np.repeat(0, amount))
PadZeros(v, amount) == v \o [i \in 1..amount |-> FromInt(0)]

(***************************************************************************)
(* xcorr (msprocessing.py 27-66).  x0, y0 are arrays of numbers, 1-indexed.*)
(***************************************************************************)
\* signal.fftconvolve(a, b, mode='full'): the linear convolution of a and b
FftConvolve(a, b) ==
    IF Len(a) = 0 \/ Len(b) = 0 THEN <<>>
    ELSE [j \in 1..(Len(a) + Len(b) - 1) |->
            SumNum([i \in 1..Len(a) |->
                      IF j - i + 1 >= 1 /\ j - i + 1 <= Len(b)
                      THEN Mul(a[i], b[j - i + 1]) ELSE FromInt(0)])]

Dot(a, b) == SumNum([i \in 1..Len(a) |-> Mul(a[i], b[i])])

\* np.arange(-(size - 1), size)
Lags(size) == [j \in 1..(IF size = 0 THEN 0 ELSE 2 * size - 1) |-> j - size]

xcorr(x0, y0, scale) ==
    LET x == IF Len(y0) > Len(x0) THEN PadZeros(x0, Len(y0) - Len(x0)) ELSE x0
        y == IF Len(x0) > Len(y0) THEN PadZeros(y0, Len(x0) - Len(y0)) ELSE y0
        corr == FftConvolve(x, Reverse(y))
        lags == Lags(Len(x))
        scaled ==
            IF scale = "biased"
            THEN [j \in 1..Len(corr) |-> Div(corr[j], FromInt(Len(x)))]
            ELSE IF scale = "unbiased"
            THEN [j \in 1..Len(corr) |->
                    Div(corr[j], FromInt(Len(x) - AbsInt(lags[j])))]
            ELSE IF scale = "coeff"
            THEN [j \in 1..Len(corr) |->
                    DivSqrt(corr[j], Mul(Dot(x, x), Dot(y, y)))]
            ELSE corr
    IN  [corr |-> scaled, lags |-> lags]

(***************************************************************************)
(* Python values held by object fields: the int 0 of Ensemble.__init__, a  *)
(* float scalar, or an array / list of numbers.                            *)
(***************************************************************************)
PyInt(i) == [t |-> "int", a |-> <<FromInt(i)>>]

Int0 == PyInt(0)

Float(q) == [t |-> "float", a |-> <<q>>]

Arr(s) == [t |-> "array", a |-> s]

\* faulty variant of PySlice: the slice starts one entry late
PySlice_OffByOne(s, lo, hi) ==
    LET h == IF hi > Len(s) THEN Len(s) ELSE hi
        l == IF lo >= 0 THEN lo + 1
             ELSE IF lo + Len(s) >= 0 THEN lo + Len(s) + 1 ELSE 1
    IN  IF l >= h THEN <<>> ELSE [i \in 1..(h - l) |-> s[l + i]]

\* s[lo:hi] of a 0-indexed Python sequence: a negative lo counts from the
\* end, out-of-range bounds are clipped
PySlice(s, lo, hi) ==
    LET h == IF hi > Len(s) THEN Len(s) ELSE hi
        l == IF lo >= 0 THEN lo ELSE IF lo + Len(s) >= 0 THEN lo + Len(s) ELSE 0
    IN  IF l >= h THEN <<>> ELSE [i \in 1..(h - l) |-> s[l + i]]

(***************************************************************************)
(* Speckle (msprocessing.py 69-179).  A Speckle object is the record       *)
(* [timeInt, timeAvg, timeIAKF, timeFAKF]; the three derived fields are    *)
(* numbers / arrays of numbers.                                           *)
(***************************************************************************)
calcTimeAverage(timeInt) == Div(SumNum(timeInt), FromInt(Len(timeInt)))

\* faulty variant of calcTimeIAKF: normalised by timeAvg, not by its square
calcTimeIAKF_NoSquare(timeInt, timeAvg) ==
    LET unnAKF == xcorr(timeInt, timeInt, "unbiased").corr
        part == PySlice(unnAKF, Len(timeInt) - 1, 2 * Len(timeInt))
    IN  [i \in 1..Len(part) |-> Div(part[i], timeAvg)]

calcTimeIAKF(timeInt, timeAvg) ==
    LET unnAKF == xcorr(timeInt, timeInt, "unbiased").corr
        part == PySlice(unnAKF, Len(timeInt) - 1, 2 * Len(timeInt))
    IN  [i \in 1..Len(part) |-> Div(part[i], Mul(timeAvg, timeAvg))]

\* timeIAKF[0] raises IndexError on an empty array
calcTimeFAKFRaises(timeIAKF) == Len(timeIAKF) = 0

calcTimeFAKF(timeIAKF) ==
    [i \in 1..Len(timeIAKF) |->
        SqrtAbs(Div(Sub(timeIAKF[i], One), Sub(timeIAKF[1], One)))]

updateSpeckle(timeInt) ==
    LET avg == calcTimeAverage(timeInt)
        iakf == calcTimeIAKF(timeInt, avg)
    IN  [timeInt |-> timeInt, timeAvg |-> avg, timeIAKF |-> iakf,
         timeFAKF |-> calcTimeFAKF(iakf)]

\* Speckle.__init__: np.array(timeInt), then updateSpeckle
SpeckleInit(timeInt) == updateSpeckle(timeInt)

SpeckleInitRaises(timeInt) ==
    calcTimeFAKFRaises(calcTimeIAKF(timeInt, calcTimeAverage(timeInt)))

\* the argument of addInt: a numeric sequence, or a value np.concatenate
\* rejects (a scalar makes a 0-dimensional array)
MoreSeq(v) == [kind |-> "seq", v |-> v]

MoreScalar == [kind |-> "scalar", v |-> <<>>]

\* Speckle.addInt: the concatenation is evaluated inside the try block and
\* its result is dropped; self.timeInt is never assigned
addInt(sp, more, update) ==
    IF more.kind # "seq" THEN sp
    ELSE IF update THEN updateSpeckle(sp.timeInt)
    ELSE sp

addIntPrints(more) == IF more.kind # "seq" THEN <<"Wrong input format!">> ELSE <<>>

(***************************************************************************)
(* Ensemble (msprocessing.py 182-461).  An Ensemble object is the record   *)
(* [speckles, numSpeckles, ensembleIAKF, ensembleFAKF, ensembleAvg,        *)
(* timeKey]; its speckles field lists references (indices into the heap H  *)
(* of Speckle objects).  An operation that can raise returns exc, the      *)
(* exception's class ("none" when it returns normally).                    *)
(***************************************************************************)
EnsembleInit ==
    [speckles |-> <<>>, numSpeckles |-> 0, ensembleIAKF |-> Int0,
     ensembleFAKF |-> Int0, ensembleAvg |-> Int0, timeKey |-> Int0]

\* the argument of addSpeckle: one Speckle, or a list of Speckles
OneSpeckle(i) == [kind |-> "one", ids |-> <<i>>]

SpeckleList(ids) == [kind |-> "list", ids |-> ids]

\* speckles[0] on an empty list raises IndexError, which the handler for
\* TypeError does not catch
addSpeckleExc(arg) ==
    IF arg.kind = "list" /\ arg.ids = <<>> THEN "IndexError" ELSE "none"

\* faulty variant of addSpeckle: the list is assigned, not extended
addSpeckle_Replace(E, arg) ==
    IF addSpeckleExc(arg) # "none" THEN E
    ELSE [E EXCEPT !.speckles = arg.ids, !.numSpeckles = Len(arg.ids)]

addSpeckle(E, arg) ==
    IF addSpeckleExc(arg) # "none" THEN E
    ELSE LET all == E.speckles \o arg.ids
         IN  [E EXCEPT !.speckles = all, !.numSpeckles = Len(all)]

\* faulty variant of calcEnsembleAvg: the mean is added to the field's old value
calcEnsembleAvg_Accumulate(E, H) ==
    LET timeavgList == [i \in 1..Len(E.speckles) |-> H[E.speckles[i]].timeAvg]
    IN  [E EXCEPT !.ensembleAvg =
            Float(Add(E.ensembleAvg.a[1],
                      Div(SumNum(timeavgList), FromInt(Len(E.speckles)))))]

calcEnsembleAvg(E, H) ==
    LET timeavgList == [i \in 1..Len(E.speckles) |-> H[E.speckles[i]].timeAvg]
    IN  [E EXCEPT !.ensembleAvg =
            Float(Div(SumNum(timeavgList), FromInt(Len(E.speckles))))]

\* faulty variant of WeightedIAKF: the plain timeIAKF, without the intensity weight
WeightedIAKF_Unweighted(sp) == sp.timeIAKF

\* speck.timeIAKF * speck.timeAvg**2
WeightedIAKF(sp) ==
    [i \in 1..Len(sp.timeIAKF) |->
        Mul(sp.timeIAKF[i], Mul(sp.timeAvg, sp.timeAvg))]

\* eIAKF += term, in place: a one-element term is broadcast over eIAKF, any
\* other difference of shape raises ValueError
RECURSIVE SumIAKF(_, _, _)
SumIAKF(members, H, eIAKF) ==
    IF members = <<>> THEN [exc |-> "none", a |-> eIAKF]
    ELSE LET term == WeightedIAKF(H[Head(members)])
         IN  IF Len(term) = Len(eIAKF)
             THEN SumIAKF(Tail(members), H,
                          [i \in 1..Len(eIAKF) |-> Add(eIAKF[i], term[i])])
             ELSE IF Len(term) = 1
             THEN SumIAKF(Tail(members), H,
                          [i \in 1..Len(eIAKF) |-> Add(eIAKF[i], term[1])])
             ELSE [exc |-> "ValueError", a |-> eIAKF]

\* faulty variant of calcEnsembleIAKF: divided by ensembleAvg, not by its square
calcEnsembleIAKF_NoSquare(E, H) ==
    IF E.speckles = <<>> THEN [exc |-> "UnboundLocalError", ens |-> E]
    ELSE LET r == SumIAKF(Tail(E.speckles), H, WeightedIAKF(H[E.speckles[1]]))
             avg == E.ensembleAvg.a[1]
             den == Mul(FromInt(Len(E.speckles)), avg)
         IN  IF r.exc # "none" THEN [exc |-> r.exc, ens |-> E]
             ELSE [exc |-> "none",
                   ens |-> [E EXCEPT !.ensembleIAKF =
                              Arr([i \in 1..Len(r.a) |-> Div(r.a[i], den)])]]

\* with no member eIAKF is never bound: UnboundLocalError at line 293
calcEnsembleIAKF(E, H) ==
    IF E.speckles = <<>> THEN [exc |-> "UnboundLocalError", ens |-> E]
    ELSE LET r == SumIAKF(Tail(E.speckles), H, WeightedIAKF(H[E.speckles[1]]))
             avg == E.ensembleAvg.a[1]
             den == Mul(FromInt(Len(E.speckles)), Mul(avg, avg))
         IN  IF r.exc # "none" THEN [exc |-> r.exc, ens |-> E]
             ELSE [exc |-> "none",
                   ens |-> [E EXCEPT !.ensembleIAKF =
                              Arr([i \in 1..Len(r.a) |-> Div(r.a[i], den)])]]

calcEnsembleFAKF(E) ==
    LET iakf == E.ensembleIAKF.a
    IN  [E EXCEPT !.ensembleFAKF =
            Arr([i \in 1..Len(iakf) |->
                   SqrtAbs(Div(Sub(iakf[i], One), Sub(iakf[1], One)))])]

\* calcEnsembleAvg, calcEnsembleIAKF, calcEnsembleFAKF in this order; an
\* exception leaves what the earlier steps assigned
updateEnsemble(E, H) ==
    LET r == calcEnsembleIAKF(calcEnsembleAvg(E, H), H)
    IN  IF r.exc # "none" THEN r
        ELSE [exc |-> "none", ens |-> calcEnsembleFAKF(r.ens)]

PyList(s) == [t |-> "list", a |-> s]

\* faulty variant of TimeKeyWalk: the total is appended before the step is
\* added, so the key starts at 0
RECURSIVE TimeKeyWalk_FromZero(_, _, _, _)
TimeKeyWalk_FromZero(numImList, timeStepList, total, timeKey) ==
    IF numImList = <<>> THEN timeKey
    ELSE IF Head(numImList) = 0
    THEN TimeKeyWalk_FromZero(Tail(numImList), Tail(timeStepList), total,
                              timeKey)
    ELSE TimeKeyWalk_FromZero(<<Head(numImList) - 1>> \o Tail(numImList),
                              timeStepList, Add(total, Head(timeStepList)),
                              Append(timeKey, total))

\* total += timeStepList[k], numImList[k] times for each batch k in turn
RECURSIVE TimeKeyWalk(_, _, _, _)
TimeKeyWalk(numImList, timeStepList, total, timeKey) ==
    IF numImList = <<>> THEN timeKey
    ELSE IF Head(numImList) = 0
    THEN TimeKeyWalk(Tail(numImList), Tail(timeStepList), total, timeKey)
    ELSE LET t == Add(total, Head(timeStepList))
         IN  TimeKeyWalk(<<Head(numImList) - 1>> \o Tail(numImList),
                         timeStepList, t, Append(timeKey, t))

RECURSIVE SumInt(_)
SumInt(s) == IF s = <<>> THEN 0 ELSE Head(s) + SumInt(Tail(s))

\* faulty variant of createTimeKey: the sum of numImList is not compared with
\* the number of images
createTimeKey_NoCheck(E, H, numImList, timeStepList, default) ==
    IF E.speckles = <<>> THEN [exc |-> "IndexError", ens |-> E, ret |-> Int0]
    ELSE LET N == Len(H[E.speckles[1]].timeInt)
             timeKey ==
                 IF default THEN PyList([i \in 1..N |-> FromInt(i)])
                 ELSE PyList(TimeKeyWalk(numImList, timeStepList,
                                         FromInt(0), <<>>))
         IN  [exc |-> "none", ens |-> [E EXCEPT !.timeKey = timeKey],
              ret |-> timeKey]

createTimeKey(E, H, numImList, timeStepList, default) ==
    IF E.speckles = <<>> THEN [exc |-> "IndexError", ens |-> E, ret |-> Int0]
    ELSE LET N == Len(H[E.speckles[1]].timeInt)
         IN  IF default
             THEN LET timeKey == PyList([i \in 1..N |-> FromInt(i)])
                  IN  [exc |-> "none", ens |-> [E EXCEPT !.timeKey = timeKey],
                       ret |-> timeKey]
             ELSE IF SumInt(numImList) # N
             THEN [exc |-> "ValueError", ens |-> E, ret |-> Int0]
             ELSE LET timeKey ==
                        PyList(TimeKeyWalk(numImList, timeStepList,
                                           FromInt(0), <<>>))
                  IN  [exc |-> "none", ens |-> [E EXCEPT !.timeKey = timeKey],
                       ret |-> timeKey]

(***************************************************************************)
(* Output operations.  out lists what reached an output: the sink (stdout, *)
(* a figure file, a log file) and the values sent to it.                   *)
(***************************************************************************)
Output(sink, v) == [sink |-> sink, v |-> v]

printStats(E) ==
    [exc |-> "none",
     out |-> <<Output("stdout", <<PyInt(E.numSpeckles)>>),
               Output("stdout", <<E.ensembleAvg>>),
               Output("stdout", <<E.ensembleIAKF>>),
               Output("stdout", <<E.ensembleFAKF>>)>>]

\* one curve of plot: the type check on yValues, then plotmode(x, y), which
\* rejects x and y of different lengths, then savefig
PlotCurve(r, wanted, xValues, yValues, file) ==
    IF r.exc # "none" \/ ~wanted THEN r
    ELSE IF yValues.t = "int" THEN [r EXCEPT !.exc = "ValueError"]
    ELSE IF Len(xValues.a) # Len(yValues.a) THEN [r EXCEPT !.exc = "ValueError"]
    ELSE [r EXCEPT !.out = Append(@, Output(file, <<xValues, yValues>>))]

plot(E, FAKF, IAKF) ==
    IF E.timeKey.t = "int" THEN [exc |-> "ValueError", out |-> <<>>]
    ELSE PlotCurve(PlotCurve([exc |-> "none", out |-> <<>>],
                             FAKF, E.timeKey, E.ensembleFAKF, "EnsembleFAKF.eps"),
                   IAKF, E.timeKey, E.ensembleIAKF, "EnsembleIAKF.jpg")

\* "%.6f" % t: t rounded to six decimals
Round6(q) ==
    IF q.k # "num" THEN q
    ELSE Rat((2 * q.n * 1000000 + q.d) \div (2 * q.d), 1000000)

\* the rows of log, written one by one until an index fails
RECURSIVE LogRows(_, _, _)
LogRows(E, i, r) ==
    IF i > Len(E.ensembleFAKF.a) THEN r
    ELSE IF E.timeKey.t = "int"
    THEN [r EXCEPT !.exc = "TypeError"]
    ELSE IF i > Len(E.timeKey.a)
    THEN [r EXCEPT !.exc = "IndexError"]
    ELSE LogRows(E, i + 1,
                 [r EXCEPT !.out =
                    Append(@, Output("enslog.asc",
                                     <<Float(Round6(E.timeKey.a[i])),
                                       Float(E.ensembleFAKF.a[i]),
                                       Float(Sub(E.ensembleIAKF.a[i], One))>>))])

\* log opens (creates) the file and writes the header before it reads
\* len(self.ensembleFAKF), a TypeError while that field is the int 0
log(E) ==
    LET header == [exc |-> "none", out |-> <<Output("enslog.asc", <<>>)>>]
    IN  IF E.ensembleFAKF.t = "int" THEN [header EXCEPT !.exc = "TypeError"]
        ELSE LogRows(E, 1, header)

\* what reached file number i of a family of files named by a format
FileOutput(sink, i, v) == [sink |-> sink, i |-> i, v |-> v]

\* the rows of one file of logIAKF: self.timeKey[k] is evaluated before the
\* row is written
RECURSIVE IAKFRows(_, _, _, _, _)
IAKFRows(E, tIAKF, i, k, r) ==
    IF k > Len(tIAKF) THEN r
    ELSE IF E.timeKey.t = "int"
    THEN [r EXCEPT !.exc = "TypeError"]
    ELSE IF k > Len(E.timeKey.a)
    THEN [r EXCEPT !.exc = "IndexError"]
    ELSE IAKFRows(E, tIAKF, i, k + 1,
                  [r EXCEPT !.out =
                     Append(@, FileOutput("Speckle%d.asc", i,
                                          <<Float(Round6(E.timeKey.a[k])),
                                            Float(tIAKF[k])>>))])

\* one file per Speckle, opened (created) and given its header before its
\* rows
RECURSIVE IAKFFiles(_, _, _, _, _)
IAKFFiles(E, H, i, numSpeckles, r) ==
    IF i >= numSpeckles \/ r.exc # "none" THEN r
    ELSE IAKFFiles(E, H, i + 1, numSpeckles,
                   IAKFRows(E, H[E.speckles[i + 1]].timeIAKF, i, 1,
                            [r EXCEPT !.out =
                               Append(@, FileOutput("Speckle%d.asc", i,
                                                    <<>>))]))

\* logIAKF: os.makedirs(directory), then the files
logIAKF(E, H, numSpeckles) ==
    LET n == IF numSpeckles = 0 \/ numSpeckles > E.numSpeckles
             THEN E.numSpeckles ELSE numSpeckles
    IN  IAKFFiles(E, H, 0, n,
                  [exc |-> "none", out |-> <<Output("IAKFs", <<>>)>>])

(***************************************************************************)
(* findExtremeSpeckles (msprocessing.py 398-461).                          *)
(***************************************************************************)
\* percent is the binary fraction p / 2^FracBits, so that the float product
\* percent * numSpeckles is exact
FracDen == 2 ^ FracBits

\* faulty variant of numExtreme: rounded up
numExtreme_Ceil(p, numSpeckles) == (p * numSpeckles + FracDen - 1) \div FracDen

\* int(percent * self.numSpeckles): truncation
numExtreme(p, numSpeckles) == (p * numSpeckles) \div FracDen

\* faulty variant of InsertDesc: ascending order (reverse=True left out)
RECURSIVE InsertDesc_Ascending(_, _)
InsertDesc_Ascending(sorted, item) ==
    IF sorted = <<>> THEN <<item>>
    ELSE IF Less(item.key, Head(sorted).key)
    THEN <<item>> \o sorted
    ELSE <<Head(sorted)>> \o InsertDesc_Ascending(Tail(sorted), item)

\* list.sort(key, reverse=True): stable, equal keys keep their order
RECURSIVE InsertDesc(_, _)
InsertDesc(sorted, item) ==
    IF sorted = <<>> THEN <<item>>
    ELSE IF Less(Head(sorted).key, item.key)
    THEN <<item>> \o sorted
    ELSE <<Head(sorted)>> \o InsertDesc(Tail(sorted), item)

RECURSIVE SortDescAcc(_, _)
SortDescAcc(items, acc) ==
    IF items = <<>> THEN acc
    ELSE SortDescAcc(Tail(items), InsertDesc(acc, Head(items)))

SortDesc(ids, keys) ==
    LET items == [i \in 1..Len(ids) |-> [id |-> ids[i], key |-> keys[i]]]
        sorted == SortDescAcc(items, <<>>)
    IN  [i \in 1..Len(sorted) |-> sorted[i].id]

\* sortFunc(x)[corrImg] raises IndexError for a scalar (getTimeAverage) or
\* for an array with no entry corrImg
KeyIndexable(sp, corrImg, sortFunc) ==
    sortFunc = "getTimeIAKF" /\ corrImg < Len(sp.timeIAKF)

\* the ranking of the copied member list: the first sort when every key
\* sortFunc(x)[corrImg] exists, else the second sort by sortFunc(x); that
\* one orders scalars, and one-element arrays, and raises ValueError when it
\* has to compare longer arrays
rankSpeckles(ids, H, corrImg, sortFunc) ==
    IF \A i \in 1..Len(ids) : KeyIndexable(H[ids[i]], corrImg, sortFunc)
    THEN [exc |-> "none",
          order |-> SortDesc(ids, [i \in 1..Len(ids) |->
                                      H[ids[i]].timeIAKF[corrImg + 1]])]
    ELSE IF sortFunc = "getTimeAverage"
    THEN [exc |-> "none",
          order |-> SortDesc(ids, [i \in 1..Len(ids) |-> H[ids[i]].timeAvg])]
    ELSE IF Len(ids) = 1
    THEN [exc |-> "none", order |-> ids]
    ELSE IF \A i \in 1..Len(ids) : Len(H[ids[i]].timeIAKF) = 1
    THEN [exc |-> "none",
          order |-> SortDesc(ids, [i \in 1..Len(ids) |->
                                      H[ids[i]].timeIAKF[1]])]
    ELSE [exc |-> "ValueError", order |-> ids]

\* speckles[:k]
FirstK(s, k) == PySlice(s, 0, k)

\* speckles[-k:]; -0 is 0, so k = 0 takes the whole list
LastK(s, k) == IF k = 0 \/ k >= Len(s) THEN s ELSE PySlice(s, Len(s) - k, Len(s))

\* faulty variant of extremeOf: the worst end only when the best end is not taken
extremeOf_Elif(order, k, best, worst) ==
    IF best THEN PySlice(order, 0, k)
    ELSE IF worst
    THEN (IF k = 0 \/ k >= Len(order) THEN order
          ELSE PySlice(order, Len(order) - k, Len(order)))
    ELSE <<>>

extremeOf(order, k, best, worst) ==
    (IF best THEN FirstK(order, k) ELSE <<>>)
        \o (IF worst THEN LastK(order, k) ELSE <<>>)

\* faulty variant of subEnsemble: the source's time key is not handed on
subEnsemble_NoTimeKey(E, H, extremeSpeckles) ==
    LET arg == SpeckleList(extremeSpeckles)
        u == updateEnsemble(addSpeckle(EnsembleInit, arg), H)
    IN  IF addSpeckleExc(arg) # "none"
        THEN [exc |-> addSpeckleExc(arg), none |-> TRUE, ens |-> EnsembleInit]
        ELSE IF u.exc # "none"
        THEN [exc |-> u.exc, none |-> TRUE, ens |-> EnsembleInit]
        ELSE [exc |-> "none", none |-> FALSE, ens |-> u.ens]

\* ens = Ensemble(); ens.addSpeckle(extremeSpeckles); ens.updateEnsemble();
\* ens.timeKey = self.timeKey
subEnsemble(E, H, extremeSpeckles) ==
    LET arg == SpeckleList(extremeSpeckles)
        u == updateEnsemble(addSpeckle(EnsembleInit, arg), H)
    IN  IF addSpeckleExc(arg) # "none"
        THEN [exc |-> addSpeckleExc(arg), none |-> TRUE, ens |-> EnsembleInit]
        ELSE IF u.exc # "none"
        THEN [exc |-> u.exc, none |-> TRUE, ens |-> EnsembleInit]
        ELSE [exc |-> "none", none |-> FALSE,
              ens |-> [u.ens EXCEPT !.timeKey = E.timeKey]]

\* faulty variant of selfSpeckles: self.speckles itself is sorted
selfSpeckles_Sorted(E, order) == order

\* self.speckles after the sort: what is sorted is the copy
\* self.speckles[:], so the list keeps its order
selfSpeckles(E, order) == E.speckles

\* the result: exc, none (TRUE when no Ensemble is returned: an exception,
\* or the plain return after the message), ens (the returned Ensemble), out
\* (what was printed) and self (the source Ensemble after the call)
findExtremeSpeckles(E, H, p, corrImg, best, worst, sortFunc) ==
    LET fail(e) == [exc |-> e, none |-> TRUE, ens |-> EnsembleInit,
                    out |-> <<>>, self |-> E]
    IN  IF E.speckles = <<>> THEN fail("IndexError")
        ELSE IF corrImg > Len(H[E.speckles[1]].timeInt) THEN fail("IndexError")
        ELSE IF ~(best \/ worst)
        THEN [exc |-> "none", none |-> TRUE, ens |-> EnsembleInit,
              out |-> <<Output("stdout",
                               <<"Either fast or slow must be set to True!">>)>>,
              self |-> E]
        ELSE LET k == numExtreme(p, E.numSpeckles)
                 r == rankSpeckles(E.speckles, H, corrImg, sortFunc)
                 after == [E EXCEPT !.speckles = selfSpeckles(E, r.order)]
             IN  IF r.exc # "none" THEN [fail(r.exc) EXCEPT !.self = after]
                 ELSE [out |-> <<>>, self |-> after] @@
                      subEnsemble(E, H, extremeOf(r.order, k, best, worst))

(***************************************************************************)
(* The state machine.  speckles is the heap of Speckle objects, ensembles  *)
(* the heap of Ensemble objects (an object's identity is its index), last  *)
(* the outcome of the latest call: the operation, the object it was called *)
(* on, its arguments, the exception it raised, the object it returned and  *)
(* what it sent to an output.  An Ensemble record holds its member list   *)
(* by value here; lists, the heap of list objects, is used by SpecShare,   *)
(* where Ensembles hold their list by reference.                           *)
(***************************************************************************)
\* the intensity sequences of the Speckles the caller has constructed
InputSeqs ==
    <<<<1, 2, 1, 2>>, <<2, 2, 2, 2>>, <<3, 1, 3, 1>>, <<1, 3>>, <<2>>>>

Heap == [i \in 1..Len(InputSeqs) |-> SpeckleInit(IntSeq(InputSeqs[i]))]

\* (numImList, timeStepList) arguments of createTimeKey, steps in halves
KeyPlans ==
    {<<<<4>>, <<2>>>>, <<<<2, 2>>, <<1, 3>>>>, <<<<2>>, <<2>>>>,
     <<<<1, 0, 1>>, <<1, 5, 0>>>>}

Outcome(op, self, arg, exc, ret, out) ==
    [op |-> op, self |-> self, arg |-> arg, exc |-> exc, ret |-> ret,
     out |-> out]

NoCall == Outcome("none", 0, <<>>, "none", 0, <<>>)

\* no call of readFramesSquare is in progress
IdleRf == [pc |-> "idle"]

\* the Speckles are constructed, and one Ensemble() is created
Init ==
    /\ speckles = Heap
    /\ ensembles = <<EnsembleInit>>
    /\ last = NoCall
    /\ rf = IdleRf
    /\ lists = <<>>

Run(i, j) == [k \in 1..(j - i + 1) |-> i + k - 1]

\* the Speckle arguments of addSpeckle: one Speckle, a list of up to three
\* consecutively created Speckles, or the empty list
SpeckleArgs ==
    {OneSpeckle(i) : i \in 1..Len(speckles)}
        \cup {SpeckleList(Run(i, j)) :
                i \in 1..Len(speckles), j \in 1..Len(speckles)}

AddSpeckle ==
    \E e \in 1..Len(ensembles), arg \in SpeckleArgs :
        /\ Len(arg.ids) <= 3
        /\ Len(ensembles[e].speckles) + Len(arg.ids) <= MaxMembers
        /\ ensembles' = [ensembles EXCEPT ![e] = addSpeckle(@, arg)]
        /\ last' = Outcome("addSpeckle", e, arg, addSpeckleExc(arg), 0, <<>>)
        /\ UNCHANGED <<lists, speckles, rf>>

UpdateEnsemble ==
    \E e \in 1..Len(ensembles) :
        LET r == updateEnsemble(ensembles[e], speckles)
        IN  /\ ensembles' = [ensembles EXCEPT ![e] = r.ens]
            /\ last' = Outcome("updateEnsemble", e, <<>>, r.exc, 0, <<>>)
            /\ UNCHANGED <<lists, speckles, rf>>

CreateTimeKey ==
    \E e \in 1..Len(ensembles), plan \in KeyPlans, default \in BOOLEAN :
        LET steps == [i \in 1..Len(plan[2]) |-> Rat(plan[2][i], 2)]
            r == createTimeKey(ensembles[e], speckles, plan[1], steps, default)
        IN  /\ ensembles' = [ensembles EXCEPT ![e] = r.ens]
            /\ last' = Outcome("createTimeKey", e,
                               [numImList |-> plan[1], timeStepList |-> steps,
                                default |-> default],
                               r.exc, 0, <<r.ret>>)
            /\ UNCHANGED <<lists, speckles, rf>>

PrintStats ==
    \E e \in 1..Len(ensembles) :
        LET r == printStats(ensembles[e])
        IN  /\ last' = Outcome("printStats", e, <<>>, r.exc, 0, r.out)
            /\ UNCHANGED <<lists, speckles, ensembles, rf>>

Plot ==
    \E e \in 1..Len(ensembles), FAKF \in BOOLEAN, IAKF \in BOOLEAN :
        LET r == plot(ensembles[e], FAKF, IAKF)
        IN  /\ last' = Outcome("plot", e, <<FAKF, IAKF>>, r.exc, 0, r.out)
            /\ UNCHANGED <<lists, speckles, ensembles, rf>>

Log ==
    \E e \in 1..Len(ensembles) :
        LET r == log(ensembles[e])
        IN  /\ last' = Outcome("log", e, <<>>, r.exc, 0, r.out)
            /\ UNCHANGED <<lists, speckles, ensembles, rf>>

LogIAKF ==
    \E e \in 1..Len(ensembles), numSpeckles \in 0..1 :
        LET r == logIAKF(ensembles[e], speckles, numSpeckles)
        IN  /\ last' = Outcome("logIAKF", e, <<numSpeckles>>, r.exc, 0, r.out)
            /\ UNCHANGED <<lists, speckles, ensembles, rf>>

Next ==
    \/ AddSpeckle
    \/ UpdateEnsemble
    \/ CreateTimeKey
    \/ PrintStats
    \/ Plot
    \/ Log
    \/ LogIAKF

Spec == Init /\ [][Next]_vars

(***************************************************************************)
(* One Speckle, constructed from any intensity sequence within the bounds, *)
(* and the calls of addInt on it.                                          *)
(***************************************************************************)
SeqsUpTo(S, n) == UNION {[1..m -> S] : m \in 1..n}

InitSpeckle ==
    /\ speckles = <<>>
    /\ ensembles = <<>>
    /\ last = NoCall
    /\ rf = IdleRf
    /\ lists = <<>>

\* Speckle(timeInt); an empty sequence raises IndexError in calcTimeFAKF and
\* no object is made
NewSpeckle ==
    \E x \in SeqsUpTo(0..MaxVal, MaxLen) \cup {<<>>} :
        /\ speckles = <<>>
        /\ speckles' = IF SpeckleInitRaises(IntSeq(x)) THEN speckles
                       ELSE <<SpeckleInit(IntSeq(x))>>
        /\ last' = Outcome("Speckle", 1, <<>>,
                           IF SpeckleInitRaises(IntSeq(x)) THEN "IndexError"
                           ELSE "none", 0, <<>>)
        /\ UNCHANGED <<lists, ensembles, rf>>

AddInt ==
    \E more \in {MoreSeq(IntSeq(v)) : v \in SeqsUpTo(0..MaxVal, MaxMore)}
                    \cup {MoreScalar},
       update \in BOOLEAN :
        /\ speckles # <<>>
        /\ speckles' = [speckles EXCEPT ![1] = addInt(@, more, update)]
        /\ last' = Outcome("addInt", 1, <<more, update>>, "none", 0,
                           addIntPrints(more))
        /\ UNCHANGED <<lists, ensembles, rf>>

NextSpeckle == NewSpeckle \/ AddInt

SpecSpeckle == InitSpeckle /\ [][NextSpeckle]_vars

(***************************************************************************)
(* Claims on one Speckle.                                                  *)
(***************************************************************************)
IsConstant(x) == \A i \in 1..Len(x) : x[i] = x[1]

\* not constant, nonzero mean, at least two samples
NonDegenerate(x) ==
    Len(x) >= 2 /\ ~IsConstant(x) /\ SumNum(x) # FromInt(0)

\* (sum of x_i^2 / N) / mean^2, from the definition
MeanSquareOverSquaredMean(x) ==
    LET N == FromInt(Len(x))
        mean == Div(SumNum(x), N)
    IN  Div(Div(SumNum([i \in 1..Len(x) |-> Mul(x[i], x[i])]), N),
            Mul(mean, mean))

\* C3: a step of addInt(more) with a numeric sequence and update=True takes
\* the stored sequence s to s followed by more, and leaves timeAvg, IAKF and
\* FAKF equal to the values computed from the extended sequence.
C3_AddIntAppends ==
    [][(last'.op = "addInt" /\ last'.arg[1].kind = "seq" /\ last'.arg[2])
         => speckles'[1] =
               updateSpeckle(speckles[1].timeInt \o last'.arg[1].v)]_vars

\* C5 as stated: IAKF[0] of a Speckle made from a non-degenerate sequence
\* is 1.
C5_IAKF0IsOne ==
    \A i \in 1..Len(speckles) :
        NonDegenerate(speckles[i].timeInt) => speckles[i].timeIAKF[1] = One

\* C5 amended: IAKF[0] of a Speckle made from a non-degenerate sequence is
\* (sum of x_i^2 / N) / timeAvg^2, and that is strictly greater than 1.
C5_IAKF0Amended ==
    \A i \in 1..Len(speckles) :
        NonDegenerate(speckles[i].timeInt)
            => /\ speckles[i].timeIAKF[1]
                    = MeanSquareOverSquaredMean(speckles[i].timeInt)
               /\ Less(One, speckles[i].timeIAKF[1])

\* a Speckle made from [1, 2]: IAKF[0] = (5/2) / (9/4) = 10/9
C5_Witness ==
    /\ Len(speckles) = 1
    /\ speckles[1].timeInt = IntSeq(<<1, 2>>)
    /\ speckles[1].timeIAKF[1] = Rat(10, 9)

\* sum over i of x[i] * x[i + k], divided by N - k (k counted from 0)
UnbiasedAutocorr(x, k) ==
    Div(SumNum([i \in 1..(Len(x) - k) |-> Mul(x[i], x[i + k])]),
        FromInt(Len(x) - k))

\* C25: a Speckle made from x of length N has timeAvg = the arithmetic mean
\* of x, N entries in timeIAKF and in timeFAKF, and timeIAKF[k] = the
\* unbiased autocorrelation of x at lag k over timeAvg^2, for k in 0..N-1.
C25_SpeckleDerivedFields ==
    \A s \in 1..Len(speckles) :
        LET x == speckles[s].timeInt
            mean == Div(SumNum(x), FromInt(Len(x)))
        IN  /\ speckles[s].timeAvg = mean
            /\ Len(speckles[s].timeIAKF) = Len(x)
            /\ Len(speckles[s].timeFAKF) = Len(x)
            /\ \A k \in 0..(Len(x) - 1) :
                   speckles[s].timeIAKF[k + 1]
                       = Div(UnbiasedAutocorr(x, k), Mul(mean, mean))

\* a Speckle made from [1, 2, 2]: IAKF[1] = ((1*2 + 2*2) / 2) / (5/3)^2
C25_Witness ==
    /\ Len(speckles) = 1
    /\ speckles[1].timeInt = IntSeq(<<1, 2, 2>>)
    /\ speckles[1].timeIAKF[2] = Rat(27, 25)
    /\ Len(speckles[1].timeFAKF) = 3

\* C15: no Speckle exists whose intensity sequence is exactly constant:
\* constructing one raises, where FAKF would be divided by IAKF[0] - 1 = 0.
C15_ConstantSequenceRaises ==
    \A i \in 1..Len(speckles) : ~IsConstant(speckles[i].timeInt)

\* C16: a call of addInt with an argument that is no numeric sequence
\* raises, and leaves the Speckle as it was.
C16_BadInputRaises ==
    [][(last'.op = "addInt" /\ last'.arg[1].kind # "seq")
         => last'.exc # "none" /\ speckles' = speckles]_vars

(***************************************************************************)
(* xcorr on its own: one call on any two arrays within the bounds, in any  *)
(* scaling mode ("none" stands for every string that is none of the three  *)
(* others), with SciPy left at its default.  The call's result is last.ret.*)
(***************************************************************************)
XVals == {-1, 0, 2}

Scales == {"none", "biased", "unbiased", "coeff"}

InitXcorr ==
    /\ speckles = <<>>
    /\ ensembles = <<>>
    /\ last = NoCall
    /\ rf = IdleRf
    /\ lists = <<>>

Xcorr ==
    \E x \in SeqsUpTo(XVals, MaxLen), y \in SeqsUpTo(XVals, MaxLen),
       scale \in Scales :
        /\ last = NoCall
        /\ last' = Outcome("xcorr", 0,
                           [x |-> IntSeq(x), y |-> IntSeq(y), scale |-> scale],
                           "none", xcorr(IntSeq(x), IntSeq(y), scale), <<>>)
        /\ UNCHANGED <<lists, speckles, ensembles, rf>>

NextXcorr == Xcorr

SpecXcorr == InitXcorr /\ [][NextXcorr]_vars

(***************************************************************************)
(* Claims on xcorr.                                                        *)
(***************************************************************************)
MaxOf(a, b) == IF a > b THEN a ELSE b

\* entry i (from 1) of v padded with zeros
Padded(v, i) == IF i <= Len(v) THEN v[i] ELSE FromInt(0)

\* sum over i of x[i + k] * y[i], terms outside 1..M being zero
DirectSum(x, y, M, k) ==
    SumNum([i \in 1..M |->
               IF i + k >= 1 /\ i + k <= M
               THEN Mul(Padded(x, i + k), Padded(y, i)) ELSE FromInt(0)])

SumSquares(x) == SumNum([i \in 1..Len(x) |-> Mul(x[i], x[i])])

\* the entry at lag k in the given mode; the coefficient mode's quotient by
\* a square root is held as its signed square
ScaledSum(x, y, M, k, scale) ==
    LET c == DirectSum(x, y, M, k)
        r == Mul(SumSquares(x), SumSquares(y))
        sq == Div(Mul(c, c), r)
    IN  IF scale = "biased" THEN Div(c, FromInt(M))
        ELSE IF scale = "unbiased" THEN Div(c, FromInt(M - AbsInt(k)))
        ELSE IF scale = "coeff"
        THEN (IF Less(c, FromInt(0)) /\ sq.k = "num"
              THEN Sub(FromInt(0), sq) ELSE sq)
        ELSE c

DerivedFresh(E, H) ==
    LET u == updateEnsemble(E, H)
    IN  /\ E.ensembleAvg \in {Int0, calcEnsembleAvg(E, H).ensembleAvg}
        /\ E.ensembleIAKF = Int0
              \/ (u.exc = "none" /\ E.ensembleIAKF = u.ens.ensembleIAKF)
        /\ E.ensembleFAKF = Int0
              \/ (u.exc = "none" /\ E.ensembleFAKF = u.ens.ensembleFAKF)

\* C1: after any sequence of addSpeckle and updateEnsemble calls, the fields
\* ensembleAvg, ensembleIAKF and ensembleFAKF of every Ensemble are the
\* not-yet-computed value or the values computed from its current members.
C1_NoStaleDerivedFields ==
    \A e \in 1..Len(ensembles) : DerivedFresh(ensembles[e], speckles)

\* updateEnsemble has completed on E at least once
Updated(E) == E.ensembleFAKF # Int0

\* the output operations that read an ensemble-derived field
ReadsDerived(call) ==
    \/ call.op \in {"printStats", "log"}
    \/ call.op = "plot" /\ (call.arg[1] \/ call.arg[2])

\* C2: a call of printStats, plot or log that reads a derived field of an
\* Ensemble on which updateEnsemble has not completed raises, and sends no
\* value to an output.
C2_ReadersFailBeforeUpdate ==
    (ReadsDerived(last) /\ ~Updated(ensembles[last.self]))
        => /\ last.exc # "none"
           /\ \A i \in 1..Len(last.out) : last.out[i].v = <<>>

\* the Ensemble's members are the Speckles of [1,2,1,2], [2,2,2,2] and
\* [3,1,3,1], and updateEnsemble has just returned
C6_Scenario ==
    /\ last.op = "updateEnsemble" /\ last.exc = "none"
    /\ Len(ensembles[last.self].speckles) = 3
    /\ {ensembles[last.self].speckles[i] : i \in 1..3} = {1, 2, 3}

C6_Averages ==
    /\ speckles[1].timeAvg = Rat(3, 2)
    /\ speckles[2].timeAvg = FromInt(2)
    /\ speckles[3].timeAvg = FromInt(2)
    /\ ensembles[last.self].ensembleAvg = Float(Rat(11, 6))

\* C6 as stated: in the three-Speckle scenario the time averages are 3/2, 2
\* and 2, ensembleAvg is 11/6 and ensembleIAKF[0] is exactly 1.
C6_EnsembleIAKF0IsOne ==
    C6_Scenario
        => C6_Averages /\ ensembles[last.self].ensembleIAKF.a[1] = One

\* C6 amended: in the three-Speckle scenario the time averages are 3/2, 2
\* and 2, ensembleAvg is 11/6 and ensembleIAKF[0] is 138/121, the mean of
\* the squared intensities (5/2 + 4 + 5) / 3 over ensembleAvg^2.
C6_EnsembleIAKF0Amended ==
    C6_Scenario
        => C6_Averages
             /\ ensembles[last.self].ensembleIAKF.a[1] = Rat(138, 121)

C6_Witness ==
    C6_Scenario /\ ensembles[last.self].ensembleIAKF.a[1] = Rat(138, 121)

\* every member of E has the sequence length of the first
SameLength(E, H) ==
    \A i \in 1..Len(E.speckles) :
        Len(H[E.speckles[i]].timeInt) = Len(H[E.speckles[1]].timeInt)

NonDecreasing(s) == \A i \in 1..(Len(s) - 1) : ~Less(s[i + 1], s[i])

\* C13: a step of createTimeKey(numImList, timeStepList) in non-default mode
\* on an Ensemble whose members all have N samples raises ValueError and
\* leaves timeKey as it was when sum(numImList) # N; otherwise it returns
\* normally and timeKey is a non-decreasing list of exactly N entries.
C13_TimeKeyLength ==
    [][(/\ last'.op = "createTimeKey"
        /\ ~last'.arg.default
        /\ ensembles[last'.self].speckles # <<>>
        /\ SameLength(ensembles[last'.self], speckles))
         => LET E == ensembles[last'.self]
                N == Len(speckles[E.speckles[1]].timeInt)
                key == ensembles'[last'.self].timeKey
            IN  IF SumInt(last'.arg.numImList) # N
                THEN last'.exc = "ValueError" /\ key = E.timeKey
                ELSE /\ last'.exc = "none"
                     /\ key.t = "list"
                     /\ Len(key.a) = N
                     /\ NonDecreasing(key.a)]_vars

\* two batches of two images on members of four samples: steps of 1/2, then
\* of 3/2
C13_Witness ==
    /\ last.op = "createTimeKey" /\ last.exc = "none" /\ ~last.arg.default
    /\ SameLength(ensembles[last.self], speckles)
    /\ ensembles[last.self].timeKey
          = PyList(<<Rat(1, 2), One, Rat(5, 2), FromInt(4)>>)

\* C17: a step of updateEnsemble on an Ensemble whose members do not all
\* have the same sequence length (one member of length 1 among longer ones
\* included) raises, and leaves ensembleIAKF and ensembleFAKF as they were.
C17_UnequalLengthsRaise ==
    [][(/\ last'.op = "updateEnsemble"
        /\ ensembles[last'.self].speckles # <<>>
        /\ ~SameLength(ensembles[last'.self], speckles))
         => /\ last'.exc # "none"
            /\ ensembles'[last'.self].ensembleIAKF
                  = ensembles[last'.self].ensembleIAKF
            /\ ensembles'[last'.self].ensembleFAKF
                  = ensembles[last'.self].ensembleFAKF]_vars

\* C18: on an Updated Ensemble with no time key, plot, log and logIAKF
\* raise before anything reaches an output: no figure, no file created.
C18_NoOutputWithoutTimeKey ==
    (/\ last.op \in {"plot", "log", "logIAKF"}
     /\ Updated(ensembles[last.self])
     /\ ensembles[last.self].timeKey = Int0)
        => last.exc # "none" /\ last.out = <<>>

\* C19: an Updated Ensemble has at least one member, and updateEnsemble
\* called on an Ensemble with no member raises and leaves ensembleAvg,
\* ensembleIAKF and ensembleFAKF all at the value of Ensemble.__init__.
C19_EmptyUpdateLeavesSentinels ==
    /\ \A e \in 1..Len(ensembles) :
           Updated(ensembles[e]) => ensembles[e].speckles # <<>>
    /\ (last.op = "updateEnsemble" /\ ensembles[last.self].speckles = <<>>)
          => /\ last.exc # "none"
             /\ ensembles[last.self].ensembleAvg = Int0
             /\ ensembles[last.self].ensembleIAKF = Int0
             /\ ensembles[last.self].ensembleFAKF = Int0

\* C20: numSpeckles is the length of the member list, and a step of
\* addSpeckle that returns normally (one Speckle, or a non-empty list)
\* takes the member list to the old list followed by the added Speckles
\* in their order, the members already present kept in place.
C20_AddSpeckleAccumulates ==
    [][/\ \A e \in 1..Len(ensembles') :
             ensembles'[e].numSpeckles = Len(ensembles'[e].speckles)
       /\ (last'.op = "addSpeckle" /\ last'.exc = "none")
            => /\ last'.arg.ids # <<>>
               /\ ensembles'[last'.self].speckles
                     = ensembles[last'.self].speckles \o last'.arg.ids
               /\ \A e \in 1..Len(ensembles) :
                      e # last'.self => ensembles'[e] = ensembles[e]]_vars

\* a list of two Speckles added to an Ensemble that already had a member
C20_Witness ==
    /\ last.op = "addSpeckle" /\ last.exc = "none"
    /\ last.arg.kind = "list" /\ Len(last.arg.ids) = 2
    /\ Len(ensembles[last.self].speckles) = 3
    /\ ensembles[last.self].speckles[1] # last.arg.ids[1]

\* the number of images in the first b batches
ImagesUpTo(numImList, b) == SumInt([i \in 1..b |-> numImList[i]])

\* the batch that image j (counted from 1) belongs to
BatchOf(numImList, j) ==
    CHOOSE b \in 1..Len(numImList) :
        ImagesUpTo(numImList, b - 1) < j /\ j <= ImagesUpTo(numImList, b)

C21_UpdateIdempotent ==
    last.op = "updateEnsemble"
        => updateEnsemble(ensembles[last.self], speckles)
             = [exc |-> last.exc, ens |-> ensembles[last.self]]

\* updateEnsemble has just returned on an Ensemble of two members
C21_Witness ==
    /\ last.op = "updateEnsemble" /\ last.exc = "none"
    /\ Len(ensembles[last.self].speckles) = 2
    /\ Updated(ensembles[last.self])

\* the members of E, as Speckle objects
Members(E, H) == [i \in 1..Len(E.speckles) |-> H[E.speckles[i]]]

\* sum over the members of IAKF_i[k] * timeAvg_i^2 (k counted from 1)
WeightedSum(E, H, k) ==
    SumNum([i \in 1..Len(E.speckles) |->
               Mul(Members(E, H)[i].timeIAKF[k],
                   Mul(Members(E, H)[i].timeAvg, Members(E, H)[i].timeAvg))])

\* the plain mean over the members of IAKF_i[k]
PlainMean(E, H, k) ==
    Div(SumNum([i \in 1..Len(E.speckles) |-> Members(E, H)[i].timeIAKF[k]]),
        FromInt(Len(E.speckles)))

\* C22: after updateEnsemble on n >= 1 members of equal length N,
\* ensembleAvg is the sum of the members' timeAvg over n, ensembleIAKF has
\* N entries and ensembleIAKF[k] * n * ensembleAvg^2 is the sum over the
\* members of IAKF_i[k] * timeAvg_i^2, for every lag k.
C22_WeightedAverage ==
    (/\ last.op = "updateEnsemble" /\ last.exc = "none"
     /\ SameLength(ensembles[last.self], speckles))
        => LET E == ensembles[last.self]
               n == FromInt(Len(E.speckles))
               avg == Div(SumNum([i \in 1..Len(E.speckles) |->
                                     Members(E, speckles)[i].timeAvg]), n)
           IN  /\ E.ensembleAvg = Float(avg)
               /\ Len(E.ensembleIAKF.a)
                     = Len(speckles[E.speckles[1]].timeInt)
               /\ \A k \in 1..Len(E.ensembleIAKF.a) :
                      Mul(Mul(E.ensembleIAKF.a[k], n), Mul(avg, avg))
                          = WeightedSum(E, speckles, k)

\* two members of different brightness: the weighted average at lag 0 is
\* not the plain mean of the members' IAKF
C22_Witness ==
    /\ last.op = "updateEnsemble" /\ last.exc = "none"
    /\ ensembles[last.self].speckles = <<1, 3>>
    /\ ensembles[last.self].ensembleIAKF.a[1]
          # PlainMean(ensembles[last.self], speckles, 1)

(***************************************************************************)
(* findExtremeSpeckles on a source Ensemble (SpecExtreme).  The source is  *)
(* any Ensemble a caller can have built from the constructed Speckles:     *)
(* Ensemble(), addSpeckle(list), then nothing more, or updateEnsemble(),   *)
(* or updateEnsemble() and createTimeKey(default=True).                    *)
(***************************************************************************)
MemberLists == UNION {[1..m -> 1..Len(Heap)] : m \in 0..MaxMembers}

Prepared(E, stage) ==
    LET u == updateEnsemble(E, Heap).ens
    IN  IF stage = 0 THEN E
        ELSE IF stage = 1 THEN u
        ELSE createTimeKey(u, Heap, <<>>, <<>>, TRUE).ens

InitExtreme ==
    /\ speckles = Heap
    /\ \E m \in MemberLists, stage \in 0..2 :
           ensembles = <<Prepared(addSpeckle(EnsembleInit, SpeckleList(m)),
                                  stage)>>
    /\ last = NoCall
    /\ rf = IdleRf
    /\ lists = <<>>

SortFuncs == {"getTimeIAKF", "getTimeAverage"}

\* one call on the source

FindExtremeSpeckles ==
    \E p \in 0..FracDen, corrImg \in 0..MaxLag, best \in BOOLEAN,
       worst \in BOOLEAN, sortFunc \in SortFuncs :
        LET r == findExtremeSpeckles(ensembles[1], speckles, p, corrImg,
                                     best, worst, sortFunc)
        IN  /\ last = NoCall
            /\ ensembles' = IF r.none THEN <<r.self>>
                            ELSE Append(<<r.self>>, r.ens)
            /\ last' = Outcome("findExtremeSpeckles", 1,
                               [p |-> p, corrImg |-> corrImg, best |-> best,
                                worst |-> worst, sortFunc |-> sortFunc],
                               r.exc, IF r.none THEN 0 ELSE Len(ensembles) + 1,
                               r.out)
            /\ UNCHANGED <<lists, speckles, rf>>

NextExtreme == FindExtremeSpeckles

SpecExtreme == InitExtreme /\ [][NextExtreme]_vars

(***************************************************************************)
(* Claims on findExtremeSpeckles.                                          *)
(***************************************************************************)
\* the latest call is a findExtremeSpeckles that returned an Ensemble
Returned == last.op = "findExtremeSpeckles" /\ last.ret # 0

Source == ensembles[last.self]

Result == ensembles[last.ret]

Ids(E) == {E.speckles[i] : i \in 1..Len(E.speckles)}

Count(E, id) == Cardinality({i \in 1..Len(E.speckles) : E.speckles[i] = id})

\* the value a Speckle is ranked by: its timeAvg, or entry corrImg of its
\* timeIAKF (the only entry, when the arrays have one entry and no entry
\* corrImg)
RankValue(sp, arg) ==
    IF arg.sortFunc = "getTimeAverage" THEN sp.timeAvg
    ELSE IF arg.corrImg < Len(sp.timeIAKF) THEN sp.timeIAKF[arg.corrImg + 1]
    ELSE sp.timeIAKF[1]

\* C7: with only best set, every selected Speckle has a ranking value >=
\* that of every unselected one; with only worst set, <=.
C7_DescendingRanking ==
    Returned =>
        \A s \in Ids(Result), u \in Ids(Source) \ Ids(Result) :
            LET vs == RankValue(speckles[s], last.arg)
                vu == RankValue(speckles[u], last.arg)
            IN  /\ (last.arg.best /\ ~last.arg.worst) => ~Less(vs, vu)
                /\ (last.arg.worst /\ ~last.arg.best) => ~Less(vu, vs)

\* a best-only call that selected a Speckle ranked strictly above one it
\* left out
C7_Witness ==
    /\ Returned /\ last.arg.best /\ ~last.arg.worst
    /\ \E s \in Ids(Result), u \in Ids(Source) \ Ids(Result) :
           Less(RankValue(speckles[u], last.arg),
                RankValue(speckles[s], last.arg))

Sides(arg) == (IF arg.best THEN 1 ELSE 0) + (IF arg.worst THEN 1 ELSE 0)

\* ceil(p / FracDen * n) and int(p / FracDen * n)
CeilCount(p, n) == (p * n + FracDen - 1) \div FracDen

FloorCount(p, n) == (p * n) \div FracDen

\* C8 as stated: for a fraction in (0, 1] the result holds
\* ceil(fraction * n) Speckles for each requested end.
C8_CeilingPerEnd ==
    (Returned /\ last.arg.p > 0)
        => Len(Result.speckles)
             = Sides(last.arg) * CeilCount(last.arg.p, Source.numSpeckles)

\* C8 amended: for a fraction in (0, 1] the result holds k =
\* int(fraction * n) Speckles for each requested end, the product truncated;
\* when k = 0 it holds none from the top and all n from the bottom.
C8_TruncatedPerEnd ==
    (Returned /\ last.arg.p > 0) =>
        LET n == Source.numSpeckles
            k == FloorCount(last.arg.p, n)
        IN  Len(Result.speckles)
              = (IF last.arg.best THEN k ELSE 0)
                  + (IF last.arg.worst THEN IF k = 0 THEN n ELSE k ELSE 0)

\* fraction 1/2 of three Speckles, best only: one Speckle, not two
C8_Witness ==
    /\ Returned /\ last.arg.best /\ ~last.arg.worst
    /\ 2 * last.arg.p = FracDen /\ Source.numSpeckles = 3
    /\ Len(Result.speckles) = 1

\* C9: fraction 1.0 with best and worst returns 2 * numSpeckles entries,
\* every Speckle of the source twice for each time the source holds it.
C9_FullFractionDoubles ==
    (Returned /\ last.arg.p = FracDen /\ last.arg.best /\ last.arg.worst)
        => /\ Len(Result.speckles) = 2 * Source.numSpeckles
           /\ Ids(Result) = Ids(Source)
           /\ \A id \in Ids(Source) : Count(Result, id) = 2 * Count(Source, id)

C9_Witness ==
    /\ Returned /\ last.arg.p = FracDen /\ last.arg.best /\ last.arg.worst
    /\ Source.numSpeckles = 3 /\ Cardinality(Ids(Source)) = 3
    /\ Len(Result.speckles) = 6

\* C10: a returned Ensemble is another object than the source, is Updated
\* with derived fields computed from its own members, has the source's
\* timeKey, and its members are Speckle objects of the source (no Speckle
\* is created).
C10_FreshSubEnsemble ==
    Returned =>
        /\ last.ret # last.self
        /\ Updated(Result)
        /\ updateEnsemble(Result, speckles).exc = "none"
        /\ updateEnsemble(Result, speckles).ens = Result
        /\ Result.timeKey = Source.timeKey
        /\ Ids(Result) \subseteq Ids(Source)
        /\ speckles = Heap

\* a sub-ensemble of a source that has a time key
C10_Witness ==
    /\ Returned /\ Source.timeKey # Int0
    /\ Result.timeKey = Source.timeKey
    /\ Len(Result.speckles) < Len(Source.speckles)

\* the latest call is a findExtremeSpeckles, whatever its outcome
Called == last.op = "findExtremeSpeckles"

\* corrImg is no index of the sequence of some member of E
LagOutOfBounds(E, H, corrImg) ==
    \E i \in 1..Len(E.speckles) : corrImg >= Len(H[E.speckles[i]].timeInt)

\* C11: a call with the per-lag ranking function getTimeIAKF and a corrImg
\* outside 0..N-1 for some member (corrImg = N included) raises IndexError
\* and returns no Ensemble.
C11_LagOutOfBoundsRaises ==
    (/\ Called
     /\ last.arg.sortFunc = "getTimeIAKF"
     /\ LagOutOfBounds(Source, speckles, last.arg.corrImg))
        => last.exc = "IndexError" /\ last.ret = 0

\* C28: for every fraction in [0, 1] and at least one end requested, the
\* returned Ensemble has exactly k members for each requested end, k =
\* int(fraction * n); with k = 0 it has no member taken from the worst end.
C28_ExactlyKPerEnd ==
    Returned
        => Len(Result.speckles)
             = Sides(last.arg) * FloorCount(last.arg.p, Source.numSpeckles)

\* C29: a step of findExtremeSpeckles, whether it returns an Ensemble or
\* not, leaves the source Ensemble as it was (members and their order,
\* numSpeckles, timeKey, derived fields), and the Speckles too.
C29_SourceUnchanged ==
    [][last'.op = "findExtremeSpeckles"
         => /\ ensembles'[last'.self] = ensembles[last'.self]
            /\ speckles' = speckles]_vars

\* a best-only call with fraction 1 on three Speckles that the ranking puts
\* in another order than the source has them in
C29_Witness ==
    /\ Returned /\ last.arg.best /\ ~last.arg.worst /\ last.arg.p = FracDen
    /\ Len(Source.speckles) = 3
    /\ Ids(Result) = Ids(Source)
    /\ Result.speckles # Source.speckles

\* C12: a call with best and worst both false raises, and no Ensemble is
\* created.
C12_NoEndRequestedRaises ==
    (Called /\ ~last.arg.best /\ ~last.arg.worst)
        => last.exc # "none" /\ last.ret = 0 /\ Len(ensembles) = 1

(***************************************************************************)
(* Member lists as objects (SpecShare).  lists is the heap of Python list  *)
(* objects; an Ensemble object is the Ensemble record with the index of its*)
(* list in the speckles field.  lists[1] is the list made once, when       *)
(* "def __init__(self, speckles=[])" is evaluated.  The calls are          *)
(* Ensemble(), addSpeckle and findExtremeSpeckles.                         *)
(***************************************************************************)
DefaultArg == 1

\* the Ensemble record of an object, its list looked up
Deref(obj, L) == [obj EXCEPT !.speckles = L[obj.speckles]]

\* faulty variant of EnsembleNew: self.speckles = speckles, the default
\* argument's list
EnsembleNew_DefaultArg(L) ==
    [lists |-> L, obj |-> [EnsembleInit EXCEPT !.speckles = DefaultArg]]

\* Ensemble.__init__: self.speckles = [] makes a new list object; the
\* argument is not used
EnsembleNew(L) ==
    [lists |-> Append(L, <<>>),
     obj |-> [EnsembleInit EXCEPT !.speckles = Len(L) + 1]]

\* addSpeckle on an object: self.speckles += speckles extends the list
\* object in place, with the elements of the argument
addSpeckleObj(obj, L, arg) ==
    LET E == addSpeckle(Deref(obj, L), arg)
    IN  [lists |-> [L EXCEPT ![obj.speckles] = E.speckles],
         obj |-> [obj EXCEPT !.numSpeckles = E.numSpeckles]]

\* lines 457-461 on objects: r is the outcome of the call on the record;
\* the source's list is L1, the result's list is the one ens = Ensemble()
\* made, extended by ens.addSpeckle(extremeSpeckles)
subEnsembleObj(obj, L1, r) ==
    LET n == EnsembleNew(L1)
        filled == addSpeckleObj(n.obj, n.lists, SpeckleList(r.ens.speckles))
    IN  IF r.none THEN [exc |-> r.exc, none |-> TRUE, lists |-> L1, obj |-> obj]
        ELSE [exc |-> r.exc, none |-> FALSE, lists |-> filled.lists,
              obj |-> [r.ens EXCEPT !.speckles = n.obj.speckles,
                                    !.numSpeckles = filled.obj.numSpeckles]]

\* the source's list object after the call on the record
sourceList(obj, L, r) == [L EXCEPT ![obj.speckles] = r.self.speckles]

\* findExtremeSpeckles on an object
findExtremeSpecklesObj(obj, L, H, p, corrImg, best, worst, sortFunc) ==
    \* the one outcome of the call on the record
    CHOOSE res \in {subEnsembleObj(obj, sourceList(obj, L, r), r) :
                       r \in {findExtremeSpeckles(Deref(obj, L), H, p, corrImg,
                                                  best, worst, sortFunc)}} :
        TRUE

InitShare ==
    /\ speckles = Heap
    /\ ensembles = <<>>
    /\ last = NoCall
    /\ rf = IdleRf
    /\ lists = <<<<>>>>

\* Ensemble()
NewEnsemble ==
    /\ Len(ensembles) < MaxEnsembles
    /\ LET n == EnsembleNew(lists)
       IN  /\ lists' = n.lists
           /\ ensembles' = Append(ensembles, n.obj)
           /\ last' = Outcome("Ensemble", Len(ensembles) + 1, <<>>, "none",
                              Len(ensembles) + 1, <<>>)
    /\ UNCHANGED <<speckles, rf>>

\* the arguments of addSpeckle: one Speckle, a list of one, no Speckle
ShareArgs == {OneSpeckle(1), SpeckleList(<<3>>), SpeckleList(<<>>)}

AddSpeckleObj ==
    \E e \in 1..Len(ensembles), arg \in ShareArgs :
        LET r == addSpeckleObj(ensembles[e], lists, arg)
        IN  /\ Len(lists[ensembles[e].speckles]) + Len(arg.ids) <= MaxMembers
            /\ lists' = r.lists
            /\ ensembles' = [ensembles EXCEPT ![e] = r.obj]
            /\ last' = Outcome("addSpeckle", e, <<>>, addSpeckleExc(arg), 0,
                               <<>>)
            /\ UNCHANGED <<speckles, rf>>

FindExtremeSpecklesObj ==
    \E e \in 1..Len(ensembles), p \in 0..FracDen, best \in BOOLEAN,
       worst \in BOOLEAN, sortFunc \in SortFuncs :
        LET r == findExtremeSpecklesObj(ensembles[e], lists, speckles, p, 0,
                                        best, worst, sortFunc)
        IN  /\ Len(ensembles) < MaxEnsembles
            /\ lists' = r.lists
            /\ ensembles' = IF r.none THEN ensembles
                            ELSE Append(ensembles, r.obj)
            /\ last' = Outcome("findExtremeSpeckles", e, <<>>, r.exc,
                               IF r.none THEN 0 ELSE Len(ensembles) + 1, <<>>)
            /\ UNCHANGED <<speckles, rf>>

NextShare == NewEnsemble \/ AddSpeckleObj \/ FindExtremeSpecklesObj

SpecShare == InitShare /\ [][NextShare]_vars

(***************************************************************************)
(* Claims on shared member lists.                                          *)
(***************************************************************************)
\* C30: two distinct Ensemble objects never hold the same list object, and
\* a step of addSpeckle on one Ensemble (made by Ensemble() or returned by
\* findExtremeSpeckles) leaves the member list and numSpeckles of every
\* other Ensemble as they were.
C30_NoSharedMemberList ==
    [][/\ \A e1 \in 1..Len(ensembles'), e2 \in 1..Len(ensembles') :
             e1 # e2 => ensembles'[e1].speckles # ensembles'[e2].speckles
       /\ last'.op = "addSpeckle"
            => \A e \in 1..Len(ensembles) :
                   e # last'.self
                       => Deref(ensembles'[e], lists') = Deref(ensembles[e], lists)]_vars

\* addSpeckle has just extended a sub-ensemble that findExtremeSpeckles
\* returned, whose source has another number of members
C30_Witness ==
    /\ last.op = "addSpeckle" /\ last.exc = "none"
    /\ Len(ensembles) >= 2
    /\ last.self = 2
    /\ ensembles[2].ensembleFAKF # Int0
    /\ ensembles[1].numSpeckles = 2
    /\ ensembles[2].numSpeckles = 3

(***************************************************************************)
(* readFramesSquare (msprocessing.py 464-614), one loop iteration a step.  *)
(* A frame is the decoded image [w, h, pat]: w rows (what the code calls   *)
(* width, len(imgMat)) of h pixels, pixel (r, c) holding Pixel(f, r, c).   *)
(* rf holds the call's arguments and locals: frames, squareSize, logging,  *)
(* the skips, count, firstFlag, numSquaresWidth / Height, speckleInt (the  *)
(* intensity list of every grid cell), the log file's lines, and the       *)
(* outcome exc / ret.                                                      *)
(***************************************************************************)
FrameDims == {<<2, 2>>, <<4, 4>>, <<2, 4>>, <<3, 3>>}

Patterns == {1, 2}

SquareSizes == {1, 2}

Pixel(f, r, c) == (f.pat * (r + 1) + 2 * c + f.pat * r * c) % 4

Min(a, b) == IF a < b THEN a ELSE b

\* imgMat[x*s:(x+1)*s, y*s:(y+1)*s].mean(); the slice is clipped to the
\* image, and the mean of no pixel is nan
BlockMean(f, x, y, s) ==
    LET rows == (x * s)..(Min((x + 1) * s, f.w) - 1)
        cols == (y * s)..(Min((y + 1) * s, f.h) - 1)
        cells == [i \in 1..(Cardinality(rows) * Cardinality(cols)) |->
                    FromInt(Pixel(f, x * s + ((i - 1) \div Cardinality(cols)),
                                  y * s + ((i - 1) % Cardinality(cols))))]
    IN  Div(SumNum(cells), FromInt(Len(cells)))

\* range(lo, hi) as the sequence of its values
PyRange(lo, hi) == IF hi <= lo THEN <<>> ELSE [i \in 1..(hi - lo) |-> lo + i - 1]

\* the (x, y) pairs of two nested range loops, in loop order
Cells(xs, ys) ==
    [i \in 1..(Len(xs) * Len(ys)) |->
        <<xs[((i - 1) \div Len(ys)) + 1], ys[((i - 1) % Len(ys)) + 1]>>]

\* lines 515-551: the first-frame block.  It runs while firstFlag is true,
\* and firstFlag is cleared only inside "if logging".
frameInit(r, f) ==
    LET width == f.w
        height == f.h
        nsw == width \div r.squareSize - r.skipStart[1] - r.skipEnd[1]
        nsh == height \div r.squareSize - r.skipStart[2] - r.skipEnd[2]
    IN  IF width % r.squareSize # 0 \/ height % r.squareSize # 0
        THEN [r EXCEPT !.exc = "TypeError"]
        ELSE IF nsw < 0 \/ nsh < 0
        THEN [r EXCEPT !.exc = "ValueError", !.numSquaresWidth = nsw,
                       !.numSquaresHeight = nsh]
        ELSE [r EXCEPT !.numSquaresWidth = nsw, !.numSquaresHeight = nsh,
                       !.speckleInt = [c \in (0..(nsw - 1)) \X (0..(nsh - 1))
                                         |-> <<>>],
                       !.log = IF r.logging
                               THEN <<[count |-> 0, v |-> <<>>]>> ELSE @,
                       !.firstFlag = IF r.logging THEN FALSE ELSE @]

\* lines 556-566: the block loops of one frame
RECURSIVE frameBlocks(_, _, _, _)
frameBlocks(r, f, cells, intensityList) ==
    IF cells = <<>> THEN [r |-> r, intensityList |-> intensityList]
    ELSE LET c == Head(cells)
             meanInt == BlockMean(f, c[1], c[2], r.squareSize)
         IN  frameBlocks([r EXCEPT !.speckleInt[c] = Append(@, meanInt)], f,
                         Tail(cells), Append(intensityList, meanInt))

\* lines 503-573: one iteration of "for f in frames"
readFrame(r0) ==
    LET f == r0.frames[r0.count + 1]
        r1 == [r0 EXCEPT !.count = @ + 1]
        r2 == IF r1.firstFlag THEN frameInit(r1, f) ELSE r1
        b == frameBlocks(r2, f,
                 Cells(PyRange(r2.skipStart[1],
                               r2.numSquaresWidth - r2.skipEnd[1]),
                       PyRange(r2.skipStart[2],
                               r2.numSquaresHeight - r2.skipEnd[2])),
                 <<>>)
    IN  IF r2.exc # "none" THEN [r2 EXCEPT !.pc = "failed"]
        ELSE IF r2.logging
        THEN [b.r EXCEPT !.log = Append(@, [count |-> r2.count,
                                            v |-> b.intensityList])]
        ELSE b.r

\* lines 580-588: the cells Speckles are made of (the x range ends at
\* numSquaresWidth - yskipEnd) and their intensity lists
speckleCells(r) ==
    Cells(PyRange(r.skipStart[1], r.numSquaresWidth - r.skipEnd[2]),
          PyRange(r.skipStart[2], r.numSquaresHeight - r.skipEnd[2]))

\* speckleInt[x, y] outside the array raises IndexError, and so does
\* Speckle([]) for a cell that received no intensity
speckleCellFails(r, c) ==
    \/ c \notin DOMAIN r.speckleInt
    \/ SpeckleInitRaises(r.speckleInt[c])

StartRf(frames, squareSize, logging, skipStart, skipEnd) ==
    [pc |-> IF frames = <<>> THEN "failed" ELSE "frames",
     frames |-> frames, squareSize |-> squareSize, logging |-> logging,
     skipStart |-> skipStart, skipEnd |-> skipEnd, count |-> 0,
     firstFlag |-> TRUE, numSquaresWidth |-> 0, numSquaresHeight |-> 0,
     speckleInt |-> <<>>, log |-> <<>>,
     exc |-> IF frames = <<>> THEN "ValueError" ELSE "none", ret |-> 0]

InitFrames ==
    /\ speckles = <<>>
    /\ ensembles = <<>>
    /\ last = NoCall
    /\ rf = IdleRf
    /\ lists = <<>>

\* the call: the directory's frames, sorted by number; nothing makes the
\* files of a directory have one size
ReadFramesStart ==
    \E n \in 0..MaxFrames, squareSize \in SquareSizes, logging \in BOOLEAN,
       skipStart \in (0..MaxSkip) \X (0..MaxSkip),
       skipEnd \in (0..MaxSkip) \X (0..MaxSkip) :
        \E dims \in [1..n -> FrameDims], pats \in [1..n -> Patterns] :
            /\ rf.pc = "idle"
            /\ rf' = StartRf([i \in 1..n |->
                                 [w |-> dims[i][1], h |-> dims[i][2],
                                  pat |-> pats[i]]],
                             squareSize, logging, skipStart, skipEnd)
            /\ UNCHANGED <<lists, speckles, ensembles, last>>

ReadFrame ==
    /\ rf.pc = "frames"
    /\ rf.count < Len(rf.frames)
    /\ rf' = readFrame(rf)
    /\ UNCHANGED <<lists, speckles, ensembles, last>>

\* lines 580-614: Speckles, Ensemble, updateEnsemble, return
CreateSpeckles ==
    /\ rf.pc = "frames"
    /\ rf.count = Len(rf.frames)
    /\ LET cells == speckleCells(rf)
           bad == \E i \in 1..Len(cells) : speckleCellFails(rf, cells[i])
           made == [i \in 1..Len(cells) |->
                       SpeckleInit(rf.speckleInt[cells[i]])]
           arg == SpeckleList([i \in 1..Len(cells) |-> Len(speckles) + i])
           u == updateEnsemble(addSpeckle(EnsembleInit, arg),
                               speckles \o made)
           exc == IF bad THEN "IndexError"
                  ELSE IF addSpeckleExc(arg) # "none" THEN addSpeckleExc(arg)
                  ELSE u.exc
       IN  IF exc # "none"
           THEN /\ rf' = [rf EXCEPT !.pc = "failed", !.exc = exc]
                /\ UNCHANGED <<speckles, ensembles>>
           ELSE /\ speckles' = speckles \o made
                /\ ensembles' = Append(ensembles, u.ens)
                /\ rf' = [rf EXCEPT !.pc = "done",
                                    !.ret = Len(ensembles) + 1]
    /\ UNCHANGED <<lists, last>>

NextFrames == ReadFramesStart \/ ReadFrame \/ CreateSpeckles

SpecFrames == InitFrames /\ [][NextFrames]_vars

(***************************************************************************)
(* Claims on readFramesSquare.                                             *)
(***************************************************************************)
NoSkips == rf.skipStart = <<0, 0>> /\ rf.skipEnd = <<0, 0>>

\* the frames all have the size of the first
EqualFrames ==
    \A i \in 1..Len(rf.frames) :
        rf.frames[i].w = rf.frames[1].w /\ rf.frames[i].h = rf.frames[1].h

\* C4: with no skips and a block size dividing both dimensions, a call that
\* is through its frames has returned an Ensemble of (W/s)*(H/s) Speckles,
\* the Speckle of cell (x, y) holding, frame by frame, the mean of block
\* (x, y), with logging enabled and with logging disabled.
C4_OneSequencePerCell ==
    (/\ rf.pc \in {"done", "failed"}
     /\ rf.frames # <<>>
     /\ EqualFrames
     /\ NoSkips
     /\ rf.frames[1].w % rf.squareSize = 0
     /\ rf.frames[1].h % rf.squareSize = 0)
        => LET nw == rf.frames[1].w \div rf.squareSize
               nh == rf.frames[1].h \div rf.squareSize
           IN  /\ rf.pc = "done"
               /\ ensembles[rf.ret].numSpeckles = nw * nh
               /\ Len(ensembles[rf.ret].speckles) = nw * nh
               /\ \A x \in 0..(nw - 1), y \in 0..(nh - 1) :
                      speckles[ensembles[rf.ret].speckles[x * nh + y + 1]].timeInt
                          = [i \in 1..Len(rf.frames) |->
                                BlockMean(rf.frames[i], x, y, rf.squareSize)]

\* the skips leave at least one row and one column of blocks
SkipsFit ==
    /\ rf.skipStart[1] + rf.skipEnd[1] < rf.frames[1].w \div rf.squareSize
    /\ rf.skipStart[2] + rf.skipEnd[2] < rf.frames[1].h \div rf.squareSize

\* C14: with skipStart = (xs, ys) and skipEnd = (xe, ye), a call (logging
\* enabled) that is through its frames has returned an Ensemble with one
\* Speckle for each cell (x, y), xs <= x < W/s - xe and ys <= y < H/s - ye,
\* that is (W/s - xs - xe) * (H/s - ys - ye) Speckles, the Speckle of cell
\* (x, y) holding the mean of block (x, y) of every frame.
C14_OneSpecklePerRetainedCell ==
    (/\ rf.pc \in {"done", "failed"}
     /\ rf.frames # <<>>
     /\ EqualFrames
     /\ rf.logging
     /\ rf.frames[1].w % rf.squareSize = 0
     /\ rf.frames[1].h % rf.squareSize = 0
     /\ SkipsFit)
        => LET x0 == rf.skipStart[1]
               y0 == rf.skipStart[2]
               nw == rf.frames[1].w \div rf.squareSize - x0 - rf.skipEnd[1]
               nh == rf.frames[1].h \div rf.squareSize - y0 - rf.skipEnd[2]
           IN  /\ rf.pc = "done"
               /\ ensembles[rf.ret].numSpeckles = nw * nh
               /\ Len(ensembles[rf.ret].speckles) = nw * nh
               /\ \A x \in 0..(nw - 1), y \in 0..(nh - 1) :
                      speckles[ensembles[rf.ret].speckles[x * nh + y + 1]].timeInt
                          = [i \in 1..Len(rf.frames) |->
                                BlockMean(rf.frames[i], x0 + x, y0 + y,
                                          rf.squareSize)]

Indivisible(f, s) == f.w % s # 0 \/ f.h % s # 0

\* C26: a call (no skips) on frames of which one has a width or a height
\* that is no multiple of the block size raises TypeError, and makes no
\* Speckle and no Ensemble.
C26_IndivisibleFrameRaises ==
    (/\ rf.pc \in {"done", "failed"}
     /\ NoSkips
     /\ \E i \in 1..Len(rf.frames) : Indivisible(rf.frames[i], rf.squareSize))
        => /\ rf.pc = "failed"
           /\ rf.exc = "TypeError"
           /\ speckles = <<>>
           /\ ensembles = <<>>

=============================================================================
